---- MODULE Spec2Model ----
(***************************************************************************)
(* A model of lambda_function/app.py: the request dispatcher               *)
(* lambda_handler_helper and its four operation handlers create_item,      *)
(* get_item, update_item and delete_item, run by concurrent Lambda         *)
(* execution environments against one DynamoDB table.                      *)
(*                                                                         *)
(* Each handler that reaches the table does so in two steps: the part of   *)
(* the handler before the table call (parsing, time-stamping), and the     *)
(* table call together with the translation of its outcome into a          *)
(* response.  The table call is atomic (DynamoDB evaluates the condition   *)
(* expression and applies the write atomically); the two steps of one      *)
(* invocation are not atomic with respect to other invocations.            *)
(***************************************************************************)
EXTENDS Integers, Sequences, FiniteSets, TLC

VARIABLES
    table,        \* the DynamoDB table: item id -> stored item, or NoItem
    now,          \* the wall clock read by datetime.utcnow(), in microseconds
    pc,           \* per execution environment: "idle" or the pending table call
    pend,         \* per execution environment: arguments of the pending table call
    invocations,  \* number of invocations started so far
    done,         \* history, per execution environment: its latest finished invocation
    last          \* history: summary of the invocation that finished most recently

vars == <<table, now, pc, pend, invocations, done, last>>

(***************************************************************************)
(* Bounds of the model.                                                    *)
(***************************************************************************)
MaxInvocations == 3

\* Microseconds per second: datetime.isoformat() prints the microsecond field
\* as six digits, and omits it altogether when it is zero.
MicrosPerSec == 1000000

\* The concurrent Lambda execution environments.
Procs == {"p1", "p2"}

(***************************************************************************)
(* Values.  Strings are sequences of character codes, so that the string   *)
(* comparison the tests apply to time stamps can be computed.  Every field *)
(* value is a record [t, v]: t is the Python type of the value.            *)
(***************************************************************************)
Absent     == [t |-> "absent",  v |-> <<>>]
PyStr(s)   == [t |-> "str",     v |-> s]
PyInt(n)   == [t |-> "int",     v |-> <<n>>]
PyFloat(n) == [t |-> "float",   v |-> <<n>>]
Decimal(n) == [t |-> "Decimal", v |-> <<n>>]

IdA == <<97>>
IdB == <<98>>
Ids == {IdA, IdB}

Fields == {"id", "created", "modified", "data"}

\* A mapping without any field; also stands for "no item under this key".
NoItem == [f \in Fields |-> Absent]


(***************************************************************************)
(* datetime.datetime.utcnow().isoformat() and the order on its results.    *)
(***************************************************************************)
Digit(d) == 48 + d
Dot == 46

\* The six-digit microsecond field, most significant digit first.
MicroDigits(us) ==
    << Digit((us \div 100000) % 10), Digit((us \div 10000) % 10),
       Digit((us \div 1000) % 10),   Digit((us \div 100) % 10),
       Digit((us \div 10) % 10),     Digit(us % 10) >>

\* isoformat() of the instant t microseconds into the modelled minute.  The
\* date and the hour and minute, "YYYY-MM-DDTHH:MM:", are the same for every
\* instant of the model and are left out; what follows them is the two-digit
\* seconds field and, only when the microsecond field is not zero, "." and
\* six digits.
isoformat(t) ==
    LET s    == t \div MicrosPerSec
        us   == t % MicrosPerSec
        head == << Digit((s \div 10) % 10), Digit(s % 10) >>
    IN  IF us = 0 THEN head ELSE head \o <<Dot>> \o MicroDigits(us)

\* Python's < on strings: lexicographic on character codes, a proper prefix
\* being smaller.
StrLess(a, b) ==
    \/ /\ Len(a) < Len(b)
       /\ \A i \in 1..Len(a) : a[i] = b[i]
    \/ \E i \in 1..Len(a) :
          /\ i <= Len(b)
          /\ a[i] < b[i]
          /\ \A j \in 1..(i - 1) : a[j] = b[j]

StrLeq(a, b) == a = b \/ StrLess(a, b)


(***************************************************************************)
(* The inbound request envelope {httpMethod, pathParameters, body}.        *)
(***************************************************************************)
Methods == {"GET", "POST", "PUT", "DELETE", "PATCH"}

\* pathParameters: None, the empty mapping, a mapping without "id", or a
\* mapping holding "id".
PathParameters ==
    { [kind |-> "null",  id |-> <<>>],
      [kind |-> "empty", id |-> <<>>],
      [kind |-> "noid",  id |-> <<>>] }
    \cup { [kind |-> "id", id |-> i] : i \in Ids }

\* A JSON object of the given fields, without a modified.
Object(i, d, c) ==
    [f \in Fields |->
         CASE f = "id"       -> i
           [] f = "data"     -> d
           [] f = "created"  -> c
           [] f = "modified" -> Absent]

\* The object with a modified of the caller's own as well.
WithModified(o, m) == [o EXCEPT !["modified"] = m]

\* The JSON objects a body may hold: with or without an id, with a further
\* field "data" holding a string, an integer or a fraction, or with a
\* "created" and a "modified" of the caller's own.
BodyObjects ==
    { Object(Absent, Absent, Absent),
      Object(PyStr(IdA), Absent, Absent),
      Object(PyStr(IdB), Absent, Absent),
      Object(PyStr(IdA), PyStr(<<120>>), Absent),
      Object(PyStr(IdA), PyInt(1), Absent),
      Object(PyStr(IdA), PyFloat(1), Absent),
      WithModified(Object(PyStr(IdB), PyStr(<<120>>), PyStr(<<57, 57>>)),
                   PyStr(<<57, 56>>)) }

NoBody == [kind |-> "null", obj |-> NoItem]

\* body: None, text that is not JSON, JSON that is not an object (such as
\* "[]"), or a JSON object.
Bodies ==
    { NoBody,
      [kind |-> "malformed", obj |-> NoItem],
      [kind |-> "nonobject", obj |-> NoItem] }
    \cup { [kind |-> "object", obj |-> o] : o \in BodyObjects }

PathA == [kind |-> "id", id |-> IdA]
PathNull == [kind |-> "null", id |-> <<>>]
NoPathId == { pp \in PathParameters : pp.kind # "id" }

\* The bodies sent with PUT: those json.loads rejects, one that is no
\* object, objects whose id is the path's, another one, or missing, and one
\* that carries a further field.
PutBodies ==
    { b \in Bodies : b.kind # "object" \/
                     ( /\ b.obj["data"] \in {Absent, PyStr(<<120>>)}
                       /\ b.obj["created"] = Absent ) }

\* The requests of the model: GET, PUT and DELETE without a path id, in each
\* of the three ways of lacking one; a method that is none of the four; GET
\* and DELETE of item a; PUT of item a and POST, with their bodies.
Events ==
    [httpMethod : {"GET", "PUT", "DELETE"}, pathParameters : NoPathId,
     body : {NoBody}]
    \cup [httpMethod : {"PATCH"}, pathParameters : {PathNull, PathA},
          body : {NoBody}]
    \cup [httpMethod : {"GET", "DELETE"}, pathParameters : {PathA},
          body : {NoBody}]
    \cup [httpMethod : {"POST"}, pathParameters : {PathNull}, body : Bodies]
    \cup [httpMethod : {"PUT"}, pathParameters : {PathA}, body : PutBodies]

(***************************************************************************)
(* The outbound response envelope {statusCode, body}, or the exception     *)
(* that leaves lambda_handler_helper instead of one.                       *)
(***************************************************************************)
Response(status, text) ==
    [raised |-> FALSE, exc |-> "", statusCode |-> status, body |-> text,
     item |-> NoItem]

\* The response of a successful read: the body is json.dumps(item).
ItemResponse(item) ==
    [raised |-> FALSE, exc |-> "", statusCode |-> 200, body |-> "json",
     item |-> item]

Raised(e) ==
    [raised |-> TRUE, exc |-> e, statusCode |-> 0, body |-> "",
     item |-> NoItem]

NoResponse == Response(0, "")

(***************************************************************************)
(* json.loads and json.dumps.                                              *)
(***************************************************************************)
\* json.loads(event['body']): TypeError on None, JSONDecodeError on text
\* that is not JSON, and otherwise the value, which is a dict only when the
\* text is a JSON object.
json_loads(body) ==
    [raises |-> body.kind \in {"null", "malformed"},
     exc    |-> CASE body.kind = "null"      -> "TypeError"
                  [] body.kind = "malformed" -> "JSONDecodeError"
                  [] OTHER                   -> "",
     isDict |-> body.kind = "object",
     obj    |-> body.obj]

\* json.dumps(item): TypeError when a value is a Decimal, which the encoder
\* cannot serialize.
json_dumps_raises(item) == \E f \in Fields : item[f].t = "Decimal"

(***************************************************************************)
(* The table as the boto3 resource presents it.                            *)
(***************************************************************************)
\* A key the table accepts: the hash key "id" is a string attribute, and not
\* the empty string.  Any other key is refused with a ValidationException.
ValidKey(k) == k.t = "str" /\ k.v \in Ids

Lookup(tbl, k) == IF ValidKey(k) THEN tbl[k.v] ELSE NoItem

\* Writing a float raises TypeError in the client before any request is sent.
SerializeRaises(item) == \E f \in Fields : item[f].t = "float"

\* A number written as an int is a Decimal in every item read back.
AsStored(item) ==
    [f \in Fields |->
        IF item[f].t = "int" THEN Decimal(item[f].v[1]) ELSE item[f]]


\* Faulty variant: put_item without its ConditionExpression.
attribute_not_exists_id_Unchecked(tbl, k) == TRUE

\* ConditionExpression "attribute_not_exists(id)" of create_item.
attribute_not_exists_id(tbl, k) == Lookup(tbl, k)["id"] = Absent

\* Faulty variant: update_item without its ConditionExpression.
attribute_exists_id_Unchecked(tbl, k) == TRUE

\* ConditionExpression "attribute_exists(id)" of update_item.
attribute_exists_id(tbl, k) == Lookup(tbl, k)["id"] # Absent

\* Faulty variant: an update that stamps the item the way create_item does.
SetModified_Restamp(item, modified) ==
    [item EXCEPT !["modified"] = modified, !["created"] = modified]

\* UpdateExpression "SET modified = :modified" applied to a stored item.
SetModified(item, modified) == [item EXCEPT !["modified"] = modified]

(***************************************************************************)
(* The dispatcher and the handlers up to their table call.  The result of  *)
(* each is either a pending table call or a finished invocation.           *)
(***************************************************************************)
NoKey == Absent

Pending(call, k, item) ==
    [call |-> call, key |-> k, item |-> item, resp |-> NoResponse,
     clock |-> call \in {"put_item", "update_item"}]

Finished(r, readsClock) ==
    [call |-> "idle", key |-> NoKey, item |-> NoItem, resp |-> r,
     clock |-> readsClock]

\* Faulty variant: `if path_parameters:` alone.
HasPathId_Truthy(pp) == pp.kind \notin {"null", "empty"}

\* `path_parameters and 'id' in path_parameters`
HasPathId(pp) == pp.kind = "id"

\* Faulty variant: created and modified from two readings of the clock.
create_item_begin_TwoReadings(data, t) ==
    IF ~data.isDict
    THEN Finished(Response(500, "Error creating item: "), TRUE)
    ELSE LET item == [data.obj EXCEPT !["created"] = PyStr(isoformat(t)),
                                      !["modified"] = PyStr(isoformat(t + 1))]
         IN  Pending("put_item", item["id"], item)

\* Faulty variant: time stamps of the caller's are kept.
create_item_begin_KeepCaller(data, t) ==
    IF ~data.isDict
    THEN Finished(Response(500, "Error creating item: "), TRUE)
    ELSE LET stamp == PyStr(isoformat(t))
             keep(f) == IF data.obj[f] = Absent THEN stamp ELSE data.obj[f]
             item  == [data.obj EXCEPT !["created"] = keep("created"),
                                       !["modified"] = keep("modified")]
         IN  Pending("put_item", item["id"], item)

\* create_item up to put_item: both time stamps are the one reading `t` of
\* the clock.  Assigning a field of a value that is not a dict raises
\* TypeError inside the try block.
create_item_begin(data, t) ==
    IF ~data.isDict
    THEN Finished(Response(500, "Error creating item: "), TRUE)
    ELSE LET stamp == PyStr(isoformat(t))
             item  == [data.obj EXCEPT !["created"] = stamp,
                                       !["modified"] = stamp]
         IN  Pending("put_item", item["id"], item)

\* Faulty variant: the key of the update taken from the body.
update_item_begin_BodyKey(item_id, data, t) ==
    IF ~data.isDict
    THEN Finished(Response(500, "Error updating item: "), TRUE)
    ELSE LET item == [data.obj EXCEPT !["modified"] = PyStr(isoformat(t))]
         IN  Pending("update_item", item["id"], item)

\* update_item up to the table's update_item.
update_item_begin(item_id, data, t) ==
    IF ~data.isDict
    THEN Finished(Response(500, "Error updating item: "), TRUE)
    ELSE LET item == [data.obj EXCEPT !["modified"] = PyStr(isoformat(t))]
         IN  Pending("update_item", PyStr(item_id), item)

\* The check of the path id against the body's id is commented out in the
\* handler: it never rejects.
PathIdMismatch(item_id, data) == FALSE

lambda_handler_helper(event, t) ==
    LET http_method     == event.httpMethod
        path_parameters == event.pathParameters
        item_data       == json_loads(event.body)
    IN  CASE http_method = "GET" ->
               IF HasPathId(path_parameters)
               THEN Pending("get_item", PyStr(path_parameters.id), NoItem)
               ELSE Finished(Response(400, "Invalid GET request"), FALSE)
          [] http_method = "POST" ->
               IF item_data.raises
               THEN Finished(Raised(item_data.exc), FALSE)
               ELSE create_item_begin(item_data, t)
          [] http_method = "PUT" ->
               IF HasPathId(path_parameters)
               THEN IF item_data.raises
                    THEN Finished(Raised(item_data.exc), FALSE)
                    ELSE IF PathIdMismatch(path_parameters.id, item_data)
                    THEN Finished(Response(400,
                             "Id in path does not match id in body"), FALSE)
                    ELSE update_item_begin(path_parameters.id, item_data, t)
               ELSE Finished(Response(400, "Invalid PUT request"), FALSE)
          [] http_method = "DELETE" ->
               IF HasPathId(path_parameters)
               THEN Pending("delete_item", PyStr(path_parameters.id), NoItem)
               ELSE Finished(Response(400, "Invalid DELETE request"), FALSE)
          [] OTHER ->
               Finished(Response(400, "Invalid HTTP method"), FALSE)

(***************************************************************************)
(* History records: what an invocation was asked, which table call it      *)
(* made with which outcome, the item under its key before and after the    *)
(* call, whether every other item stayed as it was, and what it returned.  *)
(* began is the number of the invocation,                                  *)
(* ended the number of invocations begun by the time it finished, prior a  *)
(* summary of the invocation that finished just before it.                 *)
(***************************************************************************)
Request(event) ==
    [method |-> event.httpMethod,
     path   |-> event.pathParameters.kind,
     id     |-> event.pathParameters.id,
     body   |-> event.body.kind,
     sent   |-> event.body.obj]

NoRequest ==
    [method |-> "", path |-> "", id |-> <<>>, body |-> "", sent |-> NoItem]

NoPend == [req |-> NoRequest, key |-> NoKey, item |-> NoItem, began |-> 0]

Summary(call, k, outcome, status) ==
    [call |-> call, key |-> k, outcome |-> outcome, statusCode |-> status]

NoSummary == Summary("", NoKey, "", 0)

Completed(call, req, k, item, outcome, pre, post, others, r, b, e, prior) ==
    [call |-> call, req |-> req, key |-> k, item |-> item,
     outcome |-> outcome, before |-> pre, after |-> post,
     others |-> others, resp |-> r, began |-> b, ended |-> e,
     prior |-> prior]

NoOp == Completed("", NoRequest, NoKey, NoItem, "", NoItem, NoItem, TRUE,
                  NoResponse, 0, 0, NoSummary)

\* Whether every item but the one under key k is the same in t2 as in t1.
OthersSame(t1, t2, k) == \A i \in Ids : PyStr(i) # k => t2[i] = t1[i]

\* The summary of a finished invocation, kept by the one finishing next.
SummaryOf(d) == Summary(d.call, d.key, d.outcome, d.resp.statusCode)

(***************************************************************************)
(* The state machine.                                                      *)
(***************************************************************************)
\* The clock starts two microseconds before a full second, so that the
\* readings of a run fall on both sides of it and on the full second itself.
StartTime == MicrosPerSec - 2

Init ==
    /\ table = [i \in Ids |-> NoItem]
    /\ now = StartTime
    /\ pc = [p \in Procs |-> "idle"]
    /\ pend = [p \in Procs |-> NoPend]
    /\ invocations = 0
    /\ done = [p \in Procs |-> NoOp]
    /\ last = NoSummary

\* An execution environment takes a request and runs lambda_handler_helper
\* up to the table call of the handler it dispatches to, or to the end when
\* there is none.  Every reading of the clock is a later instant than the
\* readings before it.
lambda_handler(p, event) ==
    /\ pc[p] = "idle"
    /\ invocations' = invocations + 1
    /\ UNCHANGED table
    /\ LET d == lambda_handler_helper(event, now)
       IN  /\ now' = IF d.clock THEN now + 1 ELSE now
           /\ pc' = [pc EXCEPT ![p] = d.call]
           /\ IF d.call = "idle"
              THEN /\ pend' = [pend EXCEPT ![p] = NoPend]
                   /\ done' = [done EXCEPT ![p] =
                          Completed("none", Request(event), NoKey, NoItem,
                                    "nocall", NoItem, NoItem,
                                    OthersSame(table, table', NoKey),
                                    d.resp, invocations', invocations',
                                    last)]
                   /\ last' = SummaryOf(done'[p])
              ELSE /\ pend' = [pend EXCEPT ![p] =
                          [req |-> Request(event), key |-> d.key,
                           item |-> d.item, began |-> invocations']]
                   /\ UNCHANGED <<done, last>>

\* Faulty variant: a Create that goes on to read the item back.
Return_ReadBack(p, call, outcome, r) ==
    IF call = "put_item" /\ outcome = "ok"
    THEN /\ pc' = [pc EXCEPT ![p] = "get_item"]
         /\ UNCHANGED <<pend, done, last, now, invocations>>
    ELSE /\ pc' = [pc EXCEPT ![p] = "idle"]
         /\ done' = [done EXCEPT ![p] =
                Completed(call, pend[p].req, pend[p].key, pend[p].item,
                          outcome, Lookup(table, pend[p].key),
                          Lookup(table', pend[p].key),
                          OthersSame(table, table', pend[p].key),
                          r, pend[p].began, invocations, last)]
         /\ last' = SummaryOf(done'[p])
         /\ pend' = [pend EXCEPT ![p] = NoPend]
         /\ UNCHANGED <<now, invocations>>

\* The end of an invocation that made a table call.
Return(p, call, outcome, r) ==
    /\ pc' = [pc EXCEPT ![p] = "idle"]
    /\ done' = [done EXCEPT ![p] =
           Completed(call, pend[p].req, pend[p].key, pend[p].item, outcome,
                     Lookup(table, pend[p].key), Lookup(table', pend[p].key),
                     OthersSame(table, table', pend[p].key),
                     r, pend[p].began, invocations, last)]
    /\ last' = SummaryOf(done'[p])
    /\ pend' = [pend EXCEPT ![p] = NoPend]
    /\ UNCHANGED <<now, invocations>>

\* Outcome of table.put_item(Item, ConditionExpression): "error" for any
\* exception other than ConditionalCheckFailedException.
put_item_outcome(tbl, item, fault) ==
    CASE SerializeRaises(item)                    -> "error"
      [] ~ValidKey(item["id"])                    -> "error"
      [] fault                                    -> "error"
      [] attribute_not_exists_id(tbl, item["id"]) -> "ok"
      [] OTHER                                    -> "condfail"

\* Faulty variant: every exception of put_item reported alike.
create_item_response_NoCodeCheck(outcome) ==
    IF outcome = "ok" THEN Response(200, "Item created successfully")
                      ELSE Response(500, "Error creating item: ")

create_item_response(outcome) ==
    CASE outcome = "ok"       -> Response(200, "Item created successfully")
      [] outcome = "condfail" -> Response(400, "Item already exists.")
      [] OTHER                -> Response(500, "Error creating item: ")

create_item(p, fault) ==
    /\ pc[p] = "put_item"
    /\ LET item    == pend[p].item
           outcome == put_item_outcome(table, item, fault)
       IN  /\ table' = IF outcome = "ok"
                       THEN [table EXCEPT ![item["id"].v] = AsStored(item)]
                       ELSE table
           /\ Return(p, "put_item", outcome, create_item_response(outcome))

get_item_response(item, fault) ==
    CASE fault                   -> Response(500, "Error getting item: ")
      [] item = NoItem           -> Response(404, "Item not found")
      [] json_dumps_raises(item) -> Response(500, "Error getting item: ")
      [] OTHER                   -> ItemResponse(item)

get_item_outcome(k, fault) ==
    IF fault \/ ~ValidKey(k) THEN "error" ELSE "ok"

get_item(p, fault) ==
    /\ pc[p] = "get_item"
    /\ table' = table
    /\ LET outcome == get_item_outcome(pend[p].key, fault)
       IN  Return(p, "get_item", outcome,
                  get_item_response(Lookup(table, pend[p].key),
                                    outcome = "error"))

\* Faulty variant: an update that writes whether or not the key is there.
update_item_outcome_Upsert(tbl, k, fault) ==
    IF fault \/ ~ValidKey(k) THEN "error" ELSE "ok"

update_item_outcome(tbl, k, fault) ==
    CASE fault \/ ~ValidKey(k)       -> "error"
      [] attribute_exists_id(tbl, k) -> "ok"
      [] OTHER                       -> "condfail"

\* Faulty variant: every exception of update_item reported alike.
update_item_response_NoCodeCheck(outcome) ==
    IF outcome = "ok" THEN Response(200, "Item updated successfully")
                      ELSE Response(500, "Error updating item: ")

update_item_response(outcome) ==
    CASE outcome = "ok"       -> Response(200, "Item updated successfully")
      [] outcome = "condfail" -> Response(404, "Item does not exist.")
      [] OTHER                -> Response(500, "Error updating item: ")

update_item(p, fault) ==
    /\ pc[p] = "update_item"
    /\ LET k       == pend[p].key
           outcome == update_item_outcome(table, k, fault)
       IN  /\ table' = IF outcome = "ok"
                       THEN [table EXCEPT ![k.v] =
                               SetModified(@, pend[p].item["modified"])]
                       ELSE table
           /\ Return(p, "update_item", outcome, update_item_response(outcome))

\* Faulty variant: a delete that insists on the key being there.
delete_item_outcome_Conditional(tbl, k, fault) ==
    CASE fault \/ ~ValidKey(k)       -> "error"
      [] Lookup(tbl, k) = NoItem     -> "condfail"
      [] OTHER                       -> "ok"

\* table.delete_item(Key) carries no condition: it succeeds whether or not
\* the key is there.
delete_item_outcome(tbl, k, fault) ==
    IF fault \/ ~ValidKey(k) THEN "error" ELSE "ok"

delete_item_response(outcome) ==
    IF outcome = "ok" THEN Response(200, "Item deleted successfully")
                      ELSE Response(500, "Error deleting item: ")

\* Faulty variant: a Delete that raises after the table has deleted.
delete_item_RaisesAfter(p, fault) ==
    /\ pc[p] = "delete_item"
    /\ LET k       == pend[p].key
           outcome == delete_item_outcome(table, k, fault)
       IN  /\ table' = IF ValidKey(k)
                       THEN [table EXCEPT ![k.v] = NoItem]
                       ELSE table
           /\ Return(p, "delete_item", outcome, delete_item_response(outcome))

delete_item(p, fault) ==
    /\ pc[p] = "delete_item"
    /\ LET k       == pend[p].key
           outcome == delete_item_outcome(table, k, fault)
       IN  /\ table' = IF outcome = "ok"
                       THEN [table EXCEPT ![k.v] = NoItem]
                       ELSE table
           /\ Return(p, "delete_item", outcome, delete_item_response(outcome))

\* Requests arrive at any time, MaxInvocations of them at most.  The second
\* environment serves a request only while the first is busy with one.
Next ==
    \/ \E p \in Procs, event \in Events :
          /\ invocations < MaxInvocations
          /\ p = "p2" => pc["p1"] # "idle"
          /\ lambda_handler(p, event)
    \/ \E p \in Procs, fault \in BOOLEAN : create_item(p, fault)
    \/ \E p \in Procs, fault \in BOOLEAN : get_item(p, fault)
    \/ \E p \in Procs, fault \in BOOLEAN : update_item(p, fault)
    \/ \E p \in Procs, fault \in BOOLEAN : delete_item(p, fault)

Spec == Init /\ [][Next]_vars

(***************************************************************************)
(* The end-to-end scenario of the integration test: one client sends       *)
(* POST, GET, PUT, GET, DELETE and GET for one id to a table that holds    *)
(* nothing, each request once the one before it has returned, and gives    *)
(* up when a table call fails.  Either environment may serve a request.    *)
(***************************************************************************)
Path(x) == [kind |-> "id", id |-> x]

JsonId(x) == [kind |-> "object", obj |-> Object(PyStr(x), Absent, Absent)]

Script(x) ==
    << [httpMethod |-> "POST",   pathParameters |-> PathNull, body |-> JsonId(x)],
       [httpMethod |-> "GET",    pathParameters |-> Path(x),  body |-> NoBody],
       [httpMethod |-> "PUT",    pathParameters |-> Path(x),  body |-> JsonId(x)],
       [httpMethod |-> "GET",    pathParameters |-> Path(x),  body |-> NoBody],
       [httpMethod |-> "DELETE", pathParameters |-> Path(x),  body |-> NoBody],
       [httpMethod |-> "GET",    pathParameters |-> Path(x),  body |-> NoBody] >>

\* The scenario starts shortly before a full second, on it, or just after.
ScenarioStarts == { StartTime + d : d \in 0..3 }

ScenarioInit ==
    /\ table = [i \in Ids |-> NoItem]
    /\ now \in ScenarioStarts
    /\ pc = [p \in Procs |-> "idle"]
    /\ pend = [p \in Procs |-> NoPend]
    /\ invocations = 0
    /\ done = [p \in Procs |-> NoOp]
    /\ last = NoSummary

\* The client sends the next request of its script.
ScenarioRequest(p, x) ==
    /\ \A q \in Procs : pc[q] = "idle"
    /\ invocations < Len(Script(x))
    /\ invocations > 0 => last.key = PyStr(x) /\ last.outcome # "error"
    /\ lambda_handler(p, Script(x)[invocations + 1])

ScenarioNext ==
    \/ \E p \in Procs, x \in Ids : ScenarioRequest(p, x)
    \/ \E p \in Procs, fault \in BOOLEAN : create_item(p, fault)
    \/ \E p \in Procs, fault \in BOOLEAN : get_item(p, fault)
    \/ \E p \in Procs, fault \in BOOLEAN : update_item(p, fault)
    \/ \E p \in Procs, fault \in BOOLEAN : delete_item(p, fault)

Scenario == ScenarioInit /\ [][ScenarioNext]_vars

(***************************************************************************)
(* Properties.  An invocation's table call is "answered" when it raises    *)
(* nothing but ConditionalCheckFailedException: outcome "ok" or            *)
(* "condfail".  Outcome "error" is every other exception of the call.      *)
(***************************************************************************)
Answered(d) == d.outcome \in {"ok", "condfail"}

Created200 == Response(200, "Item created successfully")
Exists400  == Response(400, "Item already exists.")

\* Two finished invocations ran concurrently: each began before the other
\* finished.
Overlap(d, e) == d.began <= e.ended /\ e.began <= d.ended

\* The latest invocations of p and q are Creates of the same id that ran
\* concurrently, the id being absent when the first of them reached the
\* table, and put_item was answered for both.
RacingCreates(p, q) ==
    /\ p # q
    /\ done[p].call = "put_item" /\ done[q].call = "put_item"
    /\ done[p].key = done[q].key
    /\ Answered(done[p]) /\ Answered(done[q])
    /\ Overlap(done[p], done[q])
    /\ done[p].before = NoItem \/ done[q].before = NoItem

\* C1: of concurrent Creates of one id that was absent, with no storage
\* failure, exactly one returns 200 "Item created successfully", the other
\* returns 400 "Item already exists.", and the item stored afterwards is the
\* one written by the invocation that returned 200.
C1_ExactlyOneCreateWins ==
    \A p, q \in Procs :
        RacingCreates(p, q) =>
            \/ /\ done[p].resp = Created200
               /\ done[q].resp = Exists400
               /\ table[done[p].key.v] = AsStored(done[p].item)
            \/ /\ done[q].resp = Created200
               /\ done[p].resp = Exists400
               /\ table[done[q].key.v] = AsStored(done[q].item)

\* Two Creates of item a have raced; the second environment won, with a
\* body that differs from the loser's.
C1_Witness ==
    /\ RacingCreates("p1", "p2")
    /\ done["p2"].resp = Created200
    /\ done["p1"].resp = Exists400
    /\ done["p1"].item["data"] # done["p2"].item["data"]

\* C2: a Create of an id that already exists, its put_item answered,
\* returns 400 "Item already exists." and leaves the stored item, and every
\* other item, unchanged in every field.
C2_CreateExistingRejected ==
    \A p \in Procs :
        ( /\ done[p].call = "put_item"
          /\ Answered(done[p])
          /\ done[p].before # NoItem )
        => /\ done[p].resp = Exists400
           /\ done[p].after = done[p].before
           /\ done[p].others

\* A Create of an existing id was rejected, the body carrying other data
\* than the stored item.
C2_Witness ==
    \E p \in Procs :
        /\ done[p].call = "put_item"
        /\ done[p].before # NoItem
        /\ done[p].resp = Exists400
        /\ AsStored(done[p].item)["data"] # done[p].before["data"]

\* C3: an Update of an existing item, its update_item answered, returns 200
\* with a modified time stamp strictly greater than the one before, and the
\* created time stamp unchanged.
C3_UpdateAdvancesModified ==
    \A p \in Procs :
        ( /\ done[p].call = "update_item"
          /\ Answered(done[p])
          /\ done[p].before # NoItem )
        => /\ done[p].resp = Response(200, "Item updated successfully")
           /\ StrLess(done[p].before["modified"].v, done[p].after["modified"].v)
           /\ done[p].after["created"] = done[p].before["created"]

\* C4: every stored item has created <= modified.
C4_CreatedNotAfterModified ==
    \A i \in Ids :
        table[i] # NoItem =>
            StrLeq(table[i]["created"].v, table[i]["modified"].v)

\* C5: every invocation returns a response envelope; no exception leaves
\* lambda_handler_helper, whatever the request and whether or not the table
\* call fails.
C5_NoExceptionEscapes ==
    \A p \in Procs : ~done[p].resp.raised

\* C6: a PUT whose path id differs from the id in its body returns 400
\* "Id in path does not match id in body", whether or not either id is in
\* the table.
C6_PathBodyIdMismatchRejected ==
    \A p \in Procs :
        ( /\ done[p].req.method = "PUT"
          /\ done[p].req.path = "id"
          /\ done[p].req.body = "object"
          /\ done[p].item["id"] # Absent
          /\ done[p].item["id"] # done[p].key )
        => done[p].resp =
               Response(400, "Id in path does not match id in body")

\* The latest invocation of p reached the table for an id that was absent,
\* and the call was answered.
OnAbsent(p, call) ==
    /\ done[p].call = call
    /\ Answered(done[p])
    /\ done[p].before = NoItem

Deleted(p) == done[p].call = "delete_item" /\ Answered(done[p])

\* The invocation that finished just before the latest one of p was a
\* Delete of the same id, answered too.
AfterDelete(p) ==
    done[p].prior = Summary("delete_item", done[p].key, "ok", 200)

\* C8: Delete is idempotent: every Delete returns 200 "Item deleted
\* successfully" and leaves the id absent, and a Delete that follows a
\* Delete of the same id leaves the table as it was.
C8_DeleteIdempotent ==
    \A p \in Procs :
        Deleted(p) =>
            /\ done[p].resp = Response(200, "Item deleted successfully")
            /\ done[p].after = NoItem
            /\ done[p].others
            /\ AfterDelete(p) => done[p].before = NoItem

\* A Delete by the second environment has followed the Delete by the first
\* that removed item a.
C8_Witness ==
    /\ Deleted("p1") /\ Deleted("p2")
    /\ done["p1"].key = done["p2"].key
    /\ done["p1"].before # NoItem
    /\ AfterDelete("p2")
    /\ done["p2"].resp.statusCode = 200

\* C9: a Create of an id that is absent returns 200, and a Read of that id
\* that follows it returns 200 with the item, which holds the caller's
\* fields and equal created and modified.
C9_CreateThenRead ==
    \A p \in Procs :
        /\ ( /\ done[p].call = "put_item"
             /\ Answered(done[p])
             /\ done[p].before = NoItem )
           => /\ done[p].resp = Created200
              /\ done[p].after["data"] = AsStored(done[p].item)["data"]
        /\ ( /\ done[p].call = "get_item"
             /\ Answered(done[p])
             /\ done[p].prior = Summary("put_item", done[p].key, "ok", 200) )
           => /\ done[p].resp.statusCode = 200
              /\ done[p].resp.item = done[p].before
              /\ done[p].resp.item["created"] = done[p].resp.item["modified"]

\* The 400 of a request without a path id.
InvalidRequest(method) ==
    CASE method = "GET"    -> Response(400, "Invalid GET request")
      [] method = "PUT"    -> Response(400, "Invalid PUT request")
      [] method = "DELETE" -> Response(400, "Invalid DELETE request")
      [] OTHER             -> Response(400, "Invalid HTTP method")

\* C10: GET, PUT and DELETE whose pathParameters are null or hold no id
\* return 400 "Invalid GET request", "Invalid PUT request" and "Invalid
\* DELETE request", any method but GET, POST, PUT and DELETE returns 400
\* "Invalid HTTP method"; no table call is made and the table is unchanged.
C10_InvalidRouting ==
    \A p \in Procs :
        ( \/ /\ done[p].req.method \in {"GET", "PUT", "DELETE"}
             /\ done[p].req.path \in {"null", "empty", "noid"}
          \/ done[p].req.method \in Methods \ {"GET", "POST", "PUT", "DELETE"} )
        => /\ done[p].resp = InvalidRequest(done[p].req.method)
           /\ done[p].call = "none"
           /\ done[p].others

\* A DELETE whose pathParameters hold no id was refused while an item was
\* in the table, right after a method that is none of the four was refused.
C10_Witness ==
    \E p \in Procs :
        /\ done[p].req.method = "DELETE"
        /\ done[p].req.path = "noid"
        /\ done[p].resp = Response(400, "Invalid DELETE request")
        /\ done[p].prior = Summary("none", NoKey, "nocall", 400)
        /\ table[IdA] # NoItem

\* C11: a successful Update changes only the modified field of the stored
\* item: id, created and the caller's fields keep their values, whatever the
\* PUT body holds, modified becomes the Update's time stamp, and no other
\* item changes.
C11_UpdateChangesOnlyModified ==
    \A p \in Procs :
        ( /\ done[p].call = "update_item"
          /\ done[p].outcome = "ok" )
        => /\ \A f \in Fields \ {"modified"} :
                  done[p].after[f] = done[p].before[f]
           /\ done[p].after["modified"] = done[p].item["modified"]
           /\ done[p].others

\* An Update has returned 200 whose body carried a data field the stored
\* item does not have, at an instant other than the item's creation.
C11_Witness ==
    \E p \in Procs :
        /\ done[p].call = "update_item"
        /\ done[p].resp = Response(200, "Item updated successfully")
        /\ done[p].item["data"] # Absent
        /\ done[p].item["data"] # done[p].before["data"]
        /\ done[p].after["data"] = done[p].before["data"]
        /\ done[p].after["modified"] # done[p].before["created"]

\* The latest invocation of p is a PUT with a path id and a body that holds
\* another id.
PutOtherId(p) ==
    /\ done[p].req.method = "PUT"
    /\ done[p].req.path = "id"
    /\ done[p].req.body = "object"
    /\ done[p].item["id"] \notin {Absent, PyStr(done[p].req.id)}

\* C12: the id of a stored item never changes: every stored item holds the
\* id it is stored under, and no invocation leaves an item with another id
\* than it had; a PUT with path id X and a body that holds another id Y
\* makes its one table call, update_item, with key X, and leaves every item
\* but X, the one under Y included, as it was.
C12_IdImmutable ==
    /\ \A i \in Ids : table[i] # NoItem => table[i]["id"] = PyStr(i)
    /\ \A p \in Procs :
          (done[p].before # NoItem /\ done[p].after # NoItem)
          => done[p].after["id"] = done[p].before["id"]
    /\ \A p \in Procs :
          PutOtherId(p) =>
              /\ done[p].call = "update_item"
              /\ done[p].key = PyStr(done[p].req.id)
              /\ done[p].key # done[p].item["id"]
              /\ done[p].others

\* A PUT of item a with the id of item b in its body has returned 200 while
\* both items were in the table.
C12_Witness ==
    \E p \in Procs :
        /\ PutOtherId(p)
        /\ done[p].resp = Response(200, "Item updated successfully")
        /\ done[p].item["id"] = PyStr(IdB)
        /\ table[IdB] # NoItem
        /\ done[p].after # done[p].before

\* The latest invocation of p is request k of the scenario, and its table
\* call was answered.
Step(p, k) == done[p].began = k /\ Answered(done[p])

\* C13: in the end-to-end scenario on an id X that is not in the table,
\* absent storage failures: POST {id: X} returns 200; GET X returns 200 with
\* the item, its created equal to its modified; PUT X {id: X} returns 200;
\* GET X returns 200 with modified greater than created; DELETE X returns
\* 200; GET X returns 404.
C13_EndToEnd ==
    \A p \in Procs :
        /\ Step(p, 1) => done[p].resp = Created200
        /\ Step(p, 2) =>
              /\ done[p].resp.statusCode = 200
              /\ done[p].resp.item["id"] = done[p].key
              /\ done[p].resp.item["created"].t = "str"
              /\ done[p].resp.item["created"] = done[p].resp.item["modified"]
        /\ Step(p, 3) =>
              done[p].resp = Response(200, "Item updated successfully")
        /\ Step(p, 4) =>
              /\ done[p].resp.statusCode = 200
              /\ done[p].resp.item["id"] = done[p].key
              /\ StrLess(done[p].resp.item["created"].v,
                         done[p].resp.item["modified"].v)
        /\ Step(p, 5) =>
              done[p].resp = Response(200, "Item deleted successfully")
        /\ Step(p, 6) => done[p].resp = Response(404, "Item not found")

\* The scenario has run to its end, the update having been stamped on a full
\* second: the last GET has returned 404 after the DELETE returned 200, and
\* the GET before it has returned the item with modified greater than
\* created.
C13_Witness ==
    \E p, q \in Procs :
        /\ Step(p, 6)
        /\ done[p].resp.statusCode = 404
        /\ done[p].prior = Summary("delete_item", done[p].key, "ok", 200)
        /\ Step(q, 4)
        /\ done[q].resp.statusCode = 200
        /\ Len(done[q].resp.item["modified"].v) < Len(done[q].resp.item["created"].v)

\* The latest invocations of p and q are an Update and a Delete of the same
\* id that ran concurrently, both table calls answered, the id being in the
\* table when the first of the two calls reached it.
UpdateRacesDelete(p, q) ==
    /\ p # q
    /\ done[p].call = "update_item" /\ done[q].call = "delete_item"
    /\ done[p].key = done[q].key
    /\ Answered(done[p]) /\ Answered(done[q])
    /\ Overlap(done[p], done[q])
    /\ done[p].before # NoItem \/ done[q].before # NoItem

\* Of the latest invocations of p and q, the table call of p was applied
\* just before that of q.
AppliedBefore(p, q) == done[q].prior = SummaryOf(done[p])

\* C14: when an Update and a Delete of the same existing id run
\* concurrently, the Delete returns 200, the Update returns 200 when its
\* write is applied before the delete and 404 when after, and the id is
\* absent once both have returned.
C14_UpdateRacesDelete ==
    \A p, q \in Procs :
        UpdateRacesDelete(p, q) =>
            /\ done[q].resp = Response(200, "Item deleted successfully")
            /\ AppliedBefore(p, q) \/ AppliedBefore(q, p)
            /\ AppliedBefore(p, q) =>
                  done[p].resp = Response(200, "Item updated successfully")
            /\ AppliedBefore(q, p) =>
                  done[p].resp = Response(404, "Item does not exist.")
            /\ table[done[p].key.v] = NoItem

\* An Update that began before a Delete of the same item was applied after
\* it, and has returned 404.
C14_Witness ==
    /\ UpdateRacesDelete("p1", "p2")
    /\ done["p1"].began < done["p2"].began
    /\ AppliedBefore("p2", "p1")
    /\ done["p2"].before # NoItem
    /\ done["p1"].resp.statusCode = 404

\* A Read leaves the table as it was, whether the id is there or not and
\* whether or not the lookup fails.
ReadLeavesTable ==
    \A p \in Procs :
        done[p].call = "get_item" =>
            done[p].after = done[p].before /\ done[p].others

\* A Read of an id that is in the table, its lookup answered, returns 200
\* with the whole stored item as its body.
ReadReturnsItem ==
    \A p \in Procs :
        ( /\ done[p].call = "get_item"
          /\ Answered(done[p])
          /\ done[p].before # NoItem )
        => done[p].resp = ItemResponse(done[p].before)

\* C15: a Read has no side effects: for every id, in the table or not, and
\* whether or not the lookup fails, a GET leaves the table as it was; when
\* the id is in the table it returns 200 with the whole stored item as body.
C15_ReadNoSideEffects == ReadLeavesTable /\ ReadReturnsItem

TableCalls == {"put_item", "get_item", "update_item", "delete_item"}

\* What a step does to the invocation of p: an invocation that begins goes
\* on to one table call or returns at once, and an invocation that makes
\* its table call returns with it.
OneCallThenReturn(p) ==
    /\ (pc[p] = "idle" /\ pc'[p] # "idle") =>
          /\ pc'[p] \in TableCalls
          /\ pend'[p].began = invocations'
    /\ (pc[p] # "idle" /\ pc'[p] # pc[p]) =>
          /\ pc'[p] = "idle"
          /\ done'[p].call = pc[p]
          /\ done'[p].began = pend[p].began
    /\ done'[p] # done[p] =>
          /\ pc'[p] = "idle"
          /\ done'[p].call \in TableCalls \cup {"none"}
          /\ done'[p].call = "none" <=> pc[p] = "idle"

\* C16: every invocation makes at most one table call (put_item, get_item,
\* update_item or delete_item) before it returns its response, whatever the
\* request, and the table changes in no step but a table call.
C16_AtMostOneStorageCall ==
    [][ /\ \A p \in Procs : OneCallThenReturn(p)
        /\ table' # table =>
              \E p \in Procs : pc[p] \in TableCalls /\ pc'[p] = "idle"
      ]_vars

\* One environment has returned from a request without any table call, the
\* other from a request with one that changed the table.
C16_Witness ==
    \E p, q \in Procs :
        /\ done[p].call = "none"
        /\ done[p].resp.statusCode = 400
        /\ done[q].call \in TableCalls
        /\ done[q].after # done[q].before

\* The text a handler's 500 begins with; str(e) follows it.
ErrorPrefix(call) ==
    CASE call = "put_item"    -> "Error creating item: "
      [] call = "get_item"    -> "Error getting item: "
      [] call = "update_item" -> "Error updating item: "
      [] call = "delete_item" -> "Error deleting item: "

\* C17: a table call that fails with anything but a failed condition is
\* answered 500 with "Error creating item: ", "Error getting item: ",
\* "Error updating item: " or "Error deleting item: ", according to the
\* operation; a failed condition is answered 400 "Item already exists." by
\* Create and 404 "Item does not exist." by Update, never 500.
C17_ErrorTranslation ==
    \A p \in Procs :
        /\ (done[p].call \in TableCalls /\ done[p].outcome = "error") =>
              done[p].resp = Response(500, ErrorPrefix(done[p].call))
        /\ done[p].outcome = "condfail" =>
              /\ done[p].call \in {"put_item", "update_item"}
              /\ done[p].call = "put_item" => done[p].resp = Exists400
              /\ done[p].call = "update_item" =>
                    done[p].resp = Response(404, "Item does not exist.")
              /\ done[p].resp.statusCode # 500

\* An Update whose condition failed has returned 404 while a Create whose
\* put_item failed otherwise has returned 500.
C17_Witness ==
    \E p, q \in Procs :
        /\ done[p].call = "update_item"
        /\ done[p].outcome = "condfail"
        /\ done[p].resp.statusCode = 404
        /\ done[q].call = "put_item"
        /\ done[q].outcome = "error"
        /\ done[q].resp.statusCode = 500

\* The item holds both time stamps.
Stamped(item) == item["created"].t = "str" /\ item["modified"].t = "str"

\* C18: Update never creates an item.  From the empty table, an id comes to
\* be in the table by nothing but a Create of it that returns 200, an Update
\* of an id that is absent leaves it absent, a Delete that succeeds leaves
\* the id absent, and every stored item holds both created and modified.
C18_UpdateNeverCreates ==
    /\ \A i \in Ids : table[i] # NoItem => Stamped(table[i])
    /\ \A p \in Procs :
          /\ (done[p].before = NoItem /\ done[p].after # NoItem) =>
                /\ done[p].call = "put_item"
                /\ done[p].resp = Created200
                /\ done[p].after["id"] = done[p].key
          /\ (done[p].call = "update_item" /\ done[p].before = NoItem) =>
                done[p].after = NoItem
          /\ (done[p].call = "delete_item" /\ done[p].outcome = "ok") =>
                done[p].after = NoItem

\* An Update of an id that is not in the table has been answered and has
\* left it absent, while the table holds another item, put there by a
\* Create that returned 200.
C18_Witness ==
    \E p, q \in Procs :
        /\ done[p].call = "update_item"
        /\ Answered(done[p])
        /\ done[p].before = NoItem
        /\ table[done[p].key.v] = NoItem
        /\ done[q].call = "put_item"
        /\ done[q].resp = Created200
        /\ done[q].key # done[p].key
        /\ table[done[q].key.v] # NoItem

\* C19: an invocation that returns anything but statusCode 200 leaves the
\* table as it was; the table changes only in a Create, an Update or a
\* Delete that returns 200.
C19_FailureLeavesTable ==
    \A p \in Procs :
        /\ (done[p].call # "" /\ done[p].resp.statusCode # 200) =>
              done[p].after = done[p].before /\ done[p].others
        /\ (done[p].after # done[p].before \/ ~done[p].others) =>
              /\ done[p].call \in {"put_item", "update_item", "delete_item"}
              /\ done[p].resp.statusCode = 200

\* An Update of an item that is in the table has failed with 500 and a
\* Create of an item that is in the table has been refused with 400.
C19_Witness ==
    \E p, q \in Procs :
        /\ done[p].call = "update_item"
        /\ done[p].resp.statusCode = 500
        /\ done[p].before # NoItem
        /\ done[q].call = "put_item"
        /\ done[q].resp.statusCode = 400
        /\ done[q].before # NoItem

\* The table holds the value sent: a string as it is, a number as a number
\* of the same value.
HoldsValue(stored, sent) ==
    \/ stored = sent
    \/ sent.t = "int" /\ stored = Decimal(sent.v[1])

\* C20: create_item overwrites a created or modified of the caller's: the
\* item a Create passes to put_item holds the time stamp the invocation
\* took in both, whatever the body holds there, and every other field as
\* the body holds it; the item a successful Create leaves in the table holds
\* those time stamps and the value of every other field of the body.
C20_CreateOverwritesStamps ==
    [][ \A p \in Procs :
          /\ (pc[p] = "idle" /\ pc'[p] = "put_item") =>
                pend'[p].item =
                    [pend'[p].req.sent EXCEPT
                        !["created"]  = PyStr(isoformat(now)),
                        !["modified"] = PyStr(isoformat(now))]
          /\ (pc[p] = "put_item" /\ pc'[p] = "idle"
                                 /\ done'[p].outcome = "ok") =>
                /\ done'[p].after["created"] = pend[p].item["created"]
                /\ done'[p].after["modified"] = pend[p].item["created"]
                /\ \A f \in Fields \ {"created", "modified"} :
                      HoldsValue(done'[p].after[f], pend[p].req.sent[f])
      ]_vars

\* A Create whose body held a created, a modified and a further field has
\* returned 200, and the item in the table holds neither time stamp of the
\* caller's.
C20_Witness ==
    \E p \in Procs :
        /\ done[p].call = "put_item"
        /\ done[p].resp = Created200
        /\ done[p].req.sent["created"] # Absent
        /\ done[p].req.sent["modified"] # Absent
        /\ done[p].req.sent["data"] # Absent
        /\ table[done[p].key.v]["created"] # done[p].req.sent["created"]
        /\ table[done[p].key.v]["modified"] # done[p].req.sent["modified"]
        /\ table[done[p].key.v]["data"] = done[p].req.sent["data"]

====
